---- MODULE Spec2Model ----
(***************************************************************************)
(* search-by-codeowner (src/index.js): a CODEOWNERS-driven file search.    *)
(*                                                                         *)
(* Strings are sequences of one-character strings, so that trimming,       *)
(* splitting, lower-casing, glob-to-regex conversion and regex matching    *)
(* are computed character by character as the JavaScript does.  Paths are  *)
(* kept relative to process.cwd() (path.join(process.cwd(), p) followed by *)
(* path.relative(process.cwd(), .) is modelled by PathNormalize).          *)
(***************************************************************************)
EXTENDS Naturals, Sequences, FiniteSets, TLC

VARIABLES
    pc,             \* position of the run: "start", "parse", "loop", "exited"; "fn"/"fnDone" in the function specs
    args,           \* process.argv.slice(2)
    codeowners,     \* .github/CODEOWNERS on disk: [status, content]
    gitignore,      \* .gitignore on disk: [status, content]
    unreadable,     \* the files of the tree whose readFileSync throws
    allEntries,     \* findCodeownersPaths: allEntries
    idx,            \* findCodeownersPaths: position of the for-of loop over allEntries
    matchingFiles,  \* findCodeownersPaths: matchingFiles (a Set, in insertion order)
    searchLog,      \* history: what each searchInFiles call did
    io,             \* history: counts of the file-system calls made so far
    out,            \* what was printed: usage, report, diagnostics
    exitStatus,     \* the process's exit status, "running" until it ends
    fnIn,           \* input of the function under check (function specs)
    fnOut           \* its result

vars == <<pc, args, codeowners, gitignore, unreadable, allEntries, idx,
          matchingFiles, searchLog, io, out, exitStatus, fnIn, fnOut>>

(***************************************************************************)
(* String primitives of JavaScript, on sequences of characters.            *)
(***************************************************************************)

\* The characters /\s/ matches, among those the model uses.
IsSpace(c) == c \in {" ", "\t", "\n", "\r"}

\* String.prototype.startsWith for a one-character prefix.
StartsWith(s, c) == Len(s) > 0 /\ s[1] = c

\* Index of the first position >= i holding character c, or Len(s)+1.
RECURSIVE FirstChar(_, _, _)
FirstChar(s, i, c) ==
    IF i > Len(s) THEN Len(s) + 1
    ELSE IF s[i] = c THEN i
    ELSE FirstChar(s, i + 1, c)

\* Index of the first position >= i holding whitespace (sp) or non-whitespace (~sp).
RECURSIVE FirstSpace(_, _, _)
FirstSpace(s, i, sp) ==
    IF i > Len(s) THEN Len(s) + 1
    ELSE IF IsSpace(s[i]) = sp THEN i
    ELSE FirstSpace(s, i + 1, sp)

\* String.prototype.trim.
RECURSIVE TrimLeft(_)
TrimLeft(s) == IF Len(s) > 0 /\ IsSpace(s[1]) THEN TrimLeft(Tail(s)) ELSE s

RECURSIVE TrimRight(_)
TrimRight(s) ==
    IF Len(s) > 0 /\ IsSpace(s[Len(s)]) THEN TrimRight(SubSeq(s, 1, Len(s) - 1)) ELSE s

Trim(s) == TrimRight(TrimLeft(s))

\* String.prototype.split(c) for a one-character separator.
RECURSIVE SplitOn(_, _)
SplitOn(s, c) ==
    LET i == FirstChar(s, 1, c)
    IN  IF i > Len(s) THEN <<s>>
        ELSE <<SubSeq(s, 1, i - 1)>> \o SplitOn(SubSeq(s, i + 1, Len(s)), c)

\* String.prototype.split(/\s+/): each maximal run of whitespace is one separator.
RECURSIVE SplitWs(_)
SplitWs(s) ==
    LET i == FirstSpace(s, 1, TRUE)
        j == FirstSpace(s, i, FALSE)
    IN  IF i > Len(s) THEN <<s>>
        ELSE <<SubSeq(s, 1, i - 1)>> \o SplitWs(SubSeq(s, j, Len(s)))

\* Array.prototype.join / string concatenation of lines with a separator.
RECURSIVE Join(_, _)
Join(ss, sep) ==
    IF Len(ss) = 0 THEN <<>>
    ELSE IF Len(ss) = 1 THEN ss[1]
    ELSE ss[1] \o sep \o Join(Tail(ss), sep)

\* The letters whose case the model distinguishes.
UpperOf ==
    [c \in {"a", "d", "e", "m", "o", "t"} |->
        CASE c = "a" -> "A" [] c = "d" -> "D" [] c = "e" -> "E"
          [] c = "m" -> "M" [] c = "o" -> "O" [] c = "t" -> "T"]

LowerChar(c) ==
    IF \E l \in DOMAIN UpperOf : UpperOf[l] = c
    THEN CHOOSE l \in DOMAIN UpperOf : UpperOf[l] = c
    ELSE c

\* A ToLowerCase that leaves the case as it is.
ToLowerCaseKeepCase(s) == s

\* String.prototype.toLowerCase.
ToLowerCase(s) == [i \in 1..Len(s) |-> LowerChar(s[i])]

\* String.prototype.includes.
Includes(s, t) ==
    \E i \in 1..(Len(s) + 1) :
        /\ i + Len(t) - 1 <= Len(s)
        /\ SubSeq(s, i, i + Len(t) - 1) = t

\* Array.prototype.includes.
ArrayIncludes(a, x) == \E i \in 1..Len(a) : a[i] = x

\* The elements of a sequence.
Range(a) == {a[i] : i \in 1..Len(a)}

\* How many of the elements of a sequence are x.
Occurrences(a, x) == Cardinality({i \in 1..Len(a) : a[i] = x})

(***************************************************************************)
(* parseCodeowners: the parse of the file's content (lines 19-41).          *)
(***************************************************************************)

IsOwnerToken(team) == StartsWith(team, "@")

\* parts.filter((team) => team.startsWith('@')): over all the parts of the line.
OwnersOf(parts) == SelectSeq(parts, IsOwnerToken)

\* One iteration of the loop over lines: the entries a line adds (none or one).
ParseLine(line) ==
    LET trimmedLine == Trim(line)
        parts == SplitWs(trimmedLine)
    IN  IF StartsWith(trimmedLine, "#") \/ trimmedLine = <<>> THEN <<>>
        ELSE IF Len(parts) < 2 THEN <<>>
        ELSE <<[path |-> parts[1], owners |-> OwnersOf(parts)]>>

RECURSIVE ParseLines(_)
ParseLines(lines) ==
    IF Len(lines) = 0 THEN <<>>
    ELSE ParseLine(lines[1]) \o ParseLines(Tail(lines))

ParseCodeownersContent(content) == ParseLines(SplitOn(content, "\n"))

(***************************************************************************)
(* parseGitignore: the parse of the file's content (lines 50-56).           *)
(***************************************************************************)

\* patterns.add(pattern): a Set keeps one copy, in insertion order.
SetAdd(set, x) == IF ArrayIncludes(set, x) THEN set ELSE Append(set, x)

RECURSIVE AddPatterns(_, _)
AddPatterns(patterns, lines) ==
    IF Len(lines) = 0 THEN patterns
    ELSE LET line == Trim(lines[1])
         IN  IF line # <<>> /\ ~StartsWith(line, "#")
             THEN AddPatterns(SetAdd(patterns, line), Tail(lines))
             ELSE AddPatterns(patterns, Tail(lines))

ParseGitignoreContent(content) == AddPatterns(<<>>, SplitOn(content, "\n"))

(***************************************************************************)
(* isIgnored (lines 59-77): the glob pattern is rewritten into the source   *)
(* of a regular expression, which is compiled and tested against the path.  *)
(* The model covers patterns made of letters, digits, '-', '_', '/', '.',   *)
(* '*' and '?'.                                                             *)
(***************************************************************************)

\* String.prototype.replace(/c/g, r) for a one-character c.
RECURSIVE ReplaceAll(_, _, _)
ReplaceAll(s, c, r) ==
    IF Len(s) = 0 THEN <<>>
    ELSE (IF s[1] = c THEN r ELSE <<s[1]>>) \o ReplaceAll(Tail(s), c, r)

\* A conversion that forgets to escape the dots of the pattern.
RegexSourceDotsUnescaped(pattern) ==
    ReplaceAll(ReplaceAll(pattern, "*", <<".", "*">>), "?", <<".">>)

\* Lines 64-67: escape dots, then * becomes .* and ? becomes .
RegexSource(pattern) ==
    ReplaceAll(ReplaceAll(ReplaceAll(pattern, ".", <<"\\", ".">>), "*", <<".", "*">>),
               "?", <<".">>)

\* The regular expression a source denotes, as a sequence of atoms: a literal
\* character, any character ("."), or any run of characters (".*").
RECURSIVE CompileRegex(_)
CompileRegex(src) ==
    IF Len(src) = 0 THEN <<>>
    ELSE IF src[1] = "\\" /\ Len(src) >= 2
         THEN <<[k |-> "lit", c |-> src[2]]>> \o CompileRegex(SubSeq(src, 3, Len(src)))
    ELSE IF src[1] = "." /\ Len(src) >= 2 /\ src[2] = "*"
         THEN <<[k |-> "anystar", c |-> "."]>> \o CompileRegex(SubSeq(src, 3, Len(src)))
    ELSE IF src[1] = "."
         THEN <<[k |-> "any", c |-> "."]>> \o CompileRegex(Tail(src))
    ELSE <<[k |-> "lit", c |-> src[1]]>> \o CompileRegex(Tail(src))

\* "." matches every character but a line terminator.
DotMatches(c) == c \notin {"\n", "\r"}

\* The positions at which a match of atoms starting at position i of s can end
\* (the position after the last matched character).
RECURSIVE MatchEnds(_, _, _)
MatchEnds(atoms, s, i) ==
    IF Len(atoms) = 0 THEN {i}
    ELSE LET a == atoms[1]
             stop == LET r == {j \in i..Len(s) : ~DotMatches(s[j])}
                     IN  IF r = {} THEN Len(s) + 1
                         ELSE CHOOSE j \in r : \A j2 \in r : j <= j2
             next == CASE a.k = "lit" -> IF i <= Len(s) /\ s[i] = a.c THEN {i + 1} ELSE {}
                       [] a.k = "any" -> IF i <= Len(s) /\ DotMatches(s[i]) THEN {i + 1} ELSE {}
                       [] a.k = "anystar" -> i..stop
         IN  UNION {MatchEnds(Tail(atoms), s, j) : j \in next}

\* new RegExp(`^${r}$|${r}/|/${r}$`).test(s)
RegexTest(atoms, s) ==
    \/ (Len(s) + 1) \in MatchEnds(atoms, s, 1)
    \/ \E i \in 1..(Len(s) + 1) :
           \E j \in MatchEnds(atoms, s, i) : j <= Len(s) /\ s[j] = "/"
    \/ \E i \in 1..Len(s) :
           s[i] = "/" /\ (Len(s) + 1) \in MatchEnds(atoms, s, i + 1)

\* process.cwd(), as the names of the directories from the root down to it.
CwdSegments == <<<<"w">>, <<"r">>>>

\* path.join(process.cwd(), p), as segments from the root: the empty and the "."
\* segments are dropped, a ".." takes back the segment before it (none at the root).
RECURSIVE ResolveSegments(_, _)
ResolveSegments(done, todo) ==
    IF Len(todo) = 0 THEN done
    ELSE LET seg == todo[1]
         IN  IF seg = <<>> \/ seg = <<".">> THEN ResolveSegments(done, Tail(todo))
             ELSE IF seg = <<".", ".">>
                  THEN ResolveSegments(SubSeq(done, 1, Len(done) - (IF Len(done) > 0 THEN 1 ELSE 0)),
                                       Tail(todo))
             ELSE ResolveSegments(Append(done, seg), Tail(todo))

\* The number of leading segments two paths share.
RECURSIVE CommonLen(_, _)
CommonLen(a, b) ==
    IF Len(a) = 0 \/ Len(b) = 0 \/ a[1] # b[1] THEN 0
    ELSE 1 + CommonLen(Tail(a), Tail(b))

\* The relative path that goes k directories up.
Ups(k) == Join([i \in 1..k |-> <<".", ".">>], <<"/">>)

\* path.relative(process.cwd(), absolute): up to the last directory shared with the
\* working directory, then down.
RelativeOf(absolute) ==
    LET n == CommonLen(absolute, CwdSegments)
    IN  Join([i \in 1..(Len(CwdSegments) - n) |-> <<".", ".">>]
             \o SubSeq(absolute, n + 1, Len(absolute)), <<"/">>)

\* path.relative(process.cwd(), path.join(process.cwd(), p))
PathNormalize(p) == RelativeOf(ResolveSegments(CwdSegments, SplitOn(p, "/")))

\* path.join(dirPath, file)
PathJoin(dirPath, file) == PathNormalize(dirPath \o <<"/">> \o file)

\* An isIgnored whose regular expressions leave the dots of the pattern unescaped.
isIgnoredDotsUnescaped(filePath, patterns) ==
    LET relativePath == PathNormalize(filePath)
    IN  \E k \in 1..Len(patterns) :
            RegexTest(CompileRegex(RegexSourceDotsUnescaped(patterns[k])), relativePath)

\* isIgnored(filePath, patterns): true at the first pattern whose regex matches.
isIgnored(filePath, patterns) ==
    LET relativePath == PathNormalize(filePath)
    IN  \E k \in 1..Len(patterns) :
            RegexTest(CompileRegex(RegexSource(patterns[k])), relativePath)

(***************************************************************************)
(* The working directory the run sees: .github/CODEOWNERS and .gitignore,   *)
(* each there or not and readable or not (Init), and the src tree, which is *)
(* fixed but for which of its files are unreadable.  Paths are relative to  *)
(* the working directory, itself the empty path.                            *)
(***************************************************************************)

P_cwd == <<>>
P_github == <<".", "g", "i", "t", "h", "u", "b">>
P_codeowners == <<".", "g", "i", "t", "h", "u", "b", "/", "C", "O", "D", "E", "O", "W", "N", "E", "R", "S">>
P_gitignore == <<".", "g", "i", "t", "i", "g", "n", "o", "r", "e">>
P_src == <<"s", "r", "c">>
P_a == <<"s", "r", "c", "/", "a", ".", "j", "s">>
P_atest == <<"s", "r", "c", "/", "a", ".", "t", "e", "s", "t", ".", "j", "s">>
P_lib == <<"s", "r", "c", "/", "l", "i", "b">>
P_b == <<"s", "r", "c", "/", "l", "i", "b", "/", "b", ".", "j", "s">>
P_c == <<"s", "r", "c", "/", "l", "i", "b", "/", "c", ".", "j", "s">>

\* The src tree: fs.readdirSync(dir), the kind fs.statSync reports and
\* fs.readFileSync's result, per path.
Tree ==
    (P_src :> [kind |-> "dir", children |-> <<<<"a", ".", "j", "s">>, <<"a", ".", "t", "e", "s", "t", ".", "j", "s">>, <<"l", "i", "b">>>>,
               content |-> <<>>])
    @@ (P_a :> [kind |-> "file", children |-> <<>>, content |-> <<"T", "O", "D", "O">>])
    @@ (P_atest :> [kind |-> "file", children |-> <<>>, content |-> <<"T", "O", "D", "O">>])
    @@ (P_lib :> [kind |-> "dir", children |-> <<<<"b", ".", "j", "s">>, <<"c", ".", "j", "s">>>>, content |-> <<>>])
    @@ (P_b :> [kind |-> "file", children |-> <<>>, content |-> <<"D", "o">>])
    @@ (P_c :> [kind |-> "file", children |-> <<>>, content |-> <<"d", "o", "n", "e">>])

TreeFiles == {p \in DOMAIN Tree : Tree[p].kind = "file"}

\* fs.existsSync / fs.statSync: what is at a normalized path.  A configuration file
\* is there unless its status is "missing" (.github with CODEOWNERS).  A directory
\* above the working directory holds the directory on the way down to it, only.
FsKind(p) ==
    IF p \in DOMAIN Tree THEN Tree[p].kind
    ELSE IF p = P_cwd THEN "dir"
    ELSE IF \E k \in 1..Len(CwdSegments) : p = Ups(k) THEN "dir"
    ELSE IF p = P_github /\ codeowners.status # "missing" THEN "dir"
    ELSE IF p = P_codeowners /\ codeowners.status # "missing" THEN "file"
    ELSE IF p = P_gitignore /\ gitignore.status # "missing" THEN "file"
    ELSE "missing"

\* fs.readdirSync(dir): the names in the directory, in the order of the listing.
FsChildren(dir) ==
    IF dir \in DOMAIN Tree THEN Tree[dir].children
    ELSE IF dir = P_cwd
    THEN (IF FsKind(P_github) = "dir" THEN <<P_github>> ELSE <<>>)
         \o (IF FsKind(P_gitignore) = "file" THEN <<P_gitignore>> ELSE <<>>)
         \o <<P_src>>
    ELSE IF \E k \in 1..Len(CwdSegments) : dir = Ups(k)
    THEN LET k == CHOOSE j \in 1..Len(CwdSegments) : dir = Ups(j)
         IN  <<CwdSegments[Len(CwdSegments) - k + 1]>>
    ELSE IF dir = P_github THEN <<<<"C", "O", "D", "E", "O", "W", "N", "E", "R", "S">>>>
    ELSE <<>>

\* Whether fs.readFileSync(file) throws.
ReadFails(file) ==
    \/ file \in unreadable
    \/ file = P_codeowners /\ codeowners.status = "unreadable"
    \/ file = P_gitignore /\ gitignore.status = "unreadable"

\* What fs.readFileSync(file, 'utf8') returns when it does not throw.
FileContent(file) ==
    IF file \in DOMAIN Tree THEN Tree[file].content
    ELSE IF file = P_codeowners THEN codeowners.content
    ELSE gitignore.content

\* The files of the working directory.
FsFiles == {p \in DOMAIN Tree \cup {P_codeowners, P_gitignore} : FsKind(p) = "file"}

\* A path that ends with a separator.
EndsWithSlash(p) == Len(p) > 0 /\ p[Len(p)] = "/"

\* fs.existsSync / fs.statSync on path.join(process.cwd(), joined): path.join keeps
\* the separator that ends the path, and such a path names a directory or nothing.
KindAt(joined) ==
    LET kind == FsKind(PathNormalize(joined))
    IN  IF kind = "file" /\ EndsWithSlash(joined) THEN "missing" ELSE kind

(***************************************************************************)
(* getAllFiles (lines 85-107).  The walk threads a record through: the      *)
(* files found, whether an exception is propagating, and the history of    *)
(* what it did (reads of .gitignore by parseGitignore, paths and ignore     *)
(* sets handed to isIgnored, readdir and stat calls).                      *)
(***************************************************************************)

\* ignorePatterns = null
NoPatterns == [loaded |-> FALSE, patterns |-> <<>>]

EmptyWalk ==
    [files |-> <<>>, threw |-> FALSE, gitignoreReads |-> 0, tested |-> <<>>,
     ignoreSets |-> <<>>, readdirs |-> 0, stats |-> 0]

\* A recursive call that does not hand the loaded patterns down.
PassDownNothing(ignorePatterns) == NoPatterns

\* Line 100: the recursive call is given the patterns the caller holds.
PassDown(ignorePatterns) == ignorePatterns

RECURSIVE getAllFiles(_, _, _)
RECURSIVE WalkEntries(_, _, _, _)

\* files.forEach((file) => ...), lines 92-104.
WalkEntries(dirPath, files, walk, ignorePatterns) ==
    IF Len(files) = 0 \/ walk.threw THEN walk
    ELSE LET filePath == PathJoin(dirPath, files[1])
             tested == [walk EXCEPT !.tested = Append(@, filePath),
                                    !.ignoreSets = SetAdd(@, ignorePatterns.patterns)]
             statted == [tested EXCEPT !.stats = @ + 1]
         IN  IF isIgnored(filePath, ignorePatterns.patterns)
             THEN WalkEntries(dirPath, Tail(files), tested, ignorePatterns)
             ELSE IF FsKind(filePath) = "dir"
             THEN WalkEntries(dirPath, Tail(files),
                              getAllFiles(filePath, statted, PassDown(ignorePatterns)),
                              ignorePatterns)
             ELSE WalkEntries(dirPath, Tail(files),
                              [statted EXCEPT !.files = Append(@, filePath)],
                              ignorePatterns)

\* getAllFiles(dirPath, arrayOfFiles, ignorePatterns); parseGitignore (lines 44-57)
\* runs when no patterns were handed in, and throws when the read fails.
getAllFiles(dirPath, walk, ignorePatterns) ==
    IF ~ignorePatterns.loaded
    THEN LET read == [walk EXCEPT !.gitignoreReads = @ + 1]
         IN  IF gitignore.status # "ok" THEN [read EXCEPT !.threw = TRUE]
             ELSE WalkEntries(dirPath, FsChildren(dirPath),
                              [read EXCEPT !.readdirs = @ + 1],
                              [loaded |-> TRUE,
                               patterns |-> ParseGitignoreContent(gitignore.content)])
    ELSE WalkEntries(dirPath, FsChildren(dirPath),
                     [walk EXCEPT !.readdirs = @ + 1], ignorePatterns)

(***************************************************************************)
(* searchInFiles (lines 115-158).                                          *)
(***************************************************************************)

\* content.toLowerCase().includes(searchTerm.toLowerCase())
ContentMatches(content, searchTerm) ==
    Includes(ToLowerCase(content), ToLowerCase(searchTerm))

\* String.prototype.replace(/^\//, '')
StripLeadingSlash(p) == IF StartsWith(p, "/") THEN Tail(p) ELSE p

EmptyScan == [reads |-> <<>>, warnings |-> <<>>, matchingFiles |-> <<>>]

\* A loop without the try/catch around each read: the first failing read ends it.
RECURSIVE ScanFilesAbortOnError(_, _, _)
ScanFilesAbortOnError(files, searchTerm, scan) ==
    IF Len(files) = 0 THEN scan
    ELSE LET file == files[1]
             read == [scan EXCEPT !.reads = Append(@, file)]
         IN  IF ReadFails(file)
             THEN [read EXCEPT !.warnings = Append(@, file)]
             ELSE IF ContentMatches(FileContent(file), searchTerm)
             THEN ScanFilesAbortOnError(Tail(files), searchTerm,
                      [read EXCEPT !.matchingFiles = Append(@, PathNormalize(file))])
             ELSE ScanFilesAbortOnError(Tail(files), searchTerm, read)

\* for (const file of files) { try { read, test, push } catch { warn } }, lines 142-151
\* (and the same body for the single file, lines 130-137).
RECURSIVE ScanFiles(_, _, _)
ScanFiles(files, searchTerm, scan) ==
    IF Len(files) = 0 THEN scan
    ELSE LET file == files[1]
             read == [scan EXCEPT !.reads = Append(@, file)]
         IN  IF ReadFails(file)
             THEN ScanFiles(Tail(files), searchTerm,
                      [read EXCEPT !.warnings = Append(@, file)])
             ELSE IF ContentMatches(FileContent(file), searchTerm)
             THEN ScanFiles(Tail(files), searchTerm,
                      [read EXCEPT !.matchingFiles = Append(@, PathNormalize(file))])
             ELSE ScanFiles(Tail(files), searchTerm, read)

\* What searchInFiles returns (matchingFiles) and the history of what it did.
SearchResult(basePath, fullPath, kind, walk, scan, missing, error) ==
    [basePath |-> basePath, fullPath |-> fullPath, kind |-> kind,
     matchingFiles |-> scan.matchingFiles,
     candidates |-> walk.files, reads |-> scan.reads, warnings |-> scan.warnings,
     missing |-> missing, error |-> error,
     gitignoreReads |-> walk.gitignoreReads, tested |-> walk.tested,
     ignoreSets |-> walk.ignoreSets,
     readdirs |-> walk.readdirs,
     stats |-> walk.stats + (IF missing THEN 0 ELSE 1),
     threw |-> FALSE]

\* A searchInFiles that filters an owned file through the ignore set as well.
searchInFilesIgnoringOwnedFiles(basePath, searchTerm) ==
    LET fullPath == PathNormalize(StripLeadingSlash(basePath))
        kind == KindAt(StripLeadingSlash(basePath))
        walk == getAllFiles(fullPath, EmptyWalk, NoPatterns)
        read == [EmptyWalk EXCEPT !.gitignoreReads = 1,
                                  !.tested = <<fullPath>>,
                                  !.ignoreSets = <<ParseGitignoreContent(gitignore.content)>>,
                                  !.threw = gitignore.status # "ok"]
    IN  CASE kind = "missing" ->
               SearchResult(basePath, fullPath, kind, EmptyWalk, EmptyScan, TRUE, FALSE)
          [] kind = "file" ->
               IF read.threw
               THEN SearchResult(basePath, fullPath, kind, read, EmptyScan, FALSE, TRUE)
               ELSE IF isIgnored(fullPath, ParseGitignoreContent(gitignore.content))
               THEN SearchResult(basePath, fullPath, kind, read, EmptyScan, FALSE, FALSE)
               ELSE SearchResult(basePath, fullPath, kind, read,
                                 ScanFiles(<<fullPath>>, searchTerm, EmptyScan),
                                 FALSE, FALSE)
          [] kind = "dir" ->
               IF walk.threw
               THEN SearchResult(basePath, fullPath, kind, walk, EmptyScan, FALSE, TRUE)
               ELSE SearchResult(basePath, fullPath, kind, walk,
                                 ScanFiles(walk.files, searchTerm, EmptyScan),
                                 FALSE, FALSE)

\* A body whose exceptions leave the function: no try/catch around it.
PropagatesUncaught(thrown) == thrown

\* try { ... } catch (err) { console.error(...) }, lines 119 and 153-155: whether an
\* exception thrown in the body leaves searchInFiles.
Propagates(thrown) == FALSE

\* searchInFiles(basePath, searchTerm).  error: the catch of lines 153-155 ran;
\* threw: an exception left the function.
searchInFiles(basePath, searchTerm) ==
    LET fullPath == PathNormalize(StripLeadingSlash(basePath))
        kind == KindAt(StripLeadingSlash(basePath))
        walk == getAllFiles(fullPath, EmptyWalk, NoPatterns)
        found == CASE kind = "missing" ->
                        SearchResult(basePath, fullPath, kind, EmptyWalk, EmptyScan, TRUE, FALSE)
                   [] kind = "file" ->
                        SearchResult(basePath, fullPath, kind, EmptyWalk,
                                     ScanFiles(<<fullPath>>, searchTerm, EmptyScan),
                                     FALSE, FALSE)
                   [] kind = "dir" ->
                        IF walk.threw
                        THEN SearchResult(basePath, fullPath, kind, walk, EmptyScan, FALSE, TRUE)
                        ELSE SearchResult(basePath, fullPath, kind, walk,
                                          ScanFiles(walk.files, searchTerm, EmptyScan),
                                          FALSE, FALSE)
    IN  [found EXCEPT !.threw = Propagates(found.error)]

(***************************************************************************)
(* findCodeownersPaths (lines 166-186) and the main execution (188-210).   *)
(***************************************************************************)

\* args.length < 1
TooFewArgsNone(argv) == Len(argv) < 1

\* Line 191: args.length < 2
TooFewArgs(argv) == Len(argv) < 2

\* Lines 197-198; args[1] is undefined when there is no second argument.
SearchTermOf(argv) == IF Len(argv) >= 1 THEN argv[1] ELSE <<>>

TeamOf(argv) == IF Len(argv) >= 2 THEN argv[2] ELSE <<>>

RECURSIVE MapToLowerCase(_)
MapToLowerCase(owners) ==
    IF Len(owners) = 0 THEN <<>>
    ELSE <<ToLowerCase(owners[1])>> \o MapToLowerCase(Tail(owners))

\* Lines 171-174: ownersLower.includes(teamLower)
OwnerMatches(owners, team) == ArrayIncludes(MapToLowerCase(owners), ToLowerCase(team))

\* Line 176: entry.path.replace(/\*/g, '').replace(/^\//, '')
NormalizedPath(entryPath) == StripLeadingSlash(ReplaceAll(entryPath, "*", <<>>))

\* An accumulator that is an array: every file is pushed.
RECURSIVE PushAll(_, _)
PushAll(set, files) ==
    IF Len(files) = 0 THEN set ELSE PushAll(Append(set, files[1]), Tail(files))

\* Line 178: filesWithTerm.forEach((file) => matchingFiles.add(file))
RECURSIVE AddAll(_, _)
AddAll(set, files) ==
    IF Len(files) = 0 THEN set ELSE AddAll(SetAdd(set, files[1]), Tail(files))

\* The calls made so far: codeownersReads and gitignoreReads count every
\* fs.readFileSync of .github/CODEOWNERS and of .gitignore, by the parsers (lines 18
\* and 49) and by the content scan (lines 131 and 144); codeownersParses and
\* gitignoreParses count the parsers' reads alone; fileReads the scan's reads.
NoIo == [codeownersExists |-> 0, codeownersReads |-> 0, gitignoreReads |-> 0,
         codeownersParses |-> 0, gitignoreParses |-> 0,
         exists |-> 0, stats |-> 0, readdirs |-> 0, fileReads |-> 0]

NoOut == [usage |-> FALSE, banner |-> FALSE, notFound |-> FALSE, parsed |-> FALSE,
          found |-> FALSE, report |-> FALSE, reportCount |-> 0, reportLines |-> <<>>,
          noFiles |-> FALSE, uncaught |-> FALSE]

\* Lines 189-200: the argument check, before anything else runs.
Main ==
    /\ pc = "start"
    /\ IF TooFewArgs(args)
       THEN /\ out' = [out EXCEPT !.usage = TRUE]
            /\ exitStatus' = 1
            /\ pc' = "exited"
       ELSE /\ out' = [out EXCEPT !.banner = TRUE]
            /\ exitStatus' = exitStatus
            /\ pc' = "parse"
    /\ UNCHANGED <<args, codeowners, gitignore, unreadable, allEntries, idx,
                   matchingFiles, searchLog, io, fnIn, fnOut>>

\* parseCodeowners(CODEOWNERS_FILE), lines 12-42, called at line 167.  The read of
\* line 18 is in no try block: when it throws, the exception ends the process.
ParseCodeowners ==
    /\ pc = "parse"
    /\ CASE codeowners.status = "missing" ->
              /\ io' = [io EXCEPT !.codeownersExists = @ + 1]
              /\ out' = [out EXCEPT !.notFound = TRUE]
              /\ allEntries' = <<>>
              /\ pc' = "loop"
              /\ exitStatus' = exitStatus
         [] codeowners.status = "unreadable" ->
              /\ io' = [io EXCEPT !.codeownersExists = @ + 1, !.codeownersReads = @ + 1,
                                  !.codeownersParses = @ + 1]
              /\ out' = [out EXCEPT !.uncaught = TRUE]
              /\ allEntries' = allEntries
              /\ pc' = "exited"
              /\ exitStatus' = 1
         [] codeowners.status = "ok" ->
              /\ io' = [io EXCEPT !.codeownersExists = @ + 1, !.codeownersReads = @ + 1,
                                  !.codeownersParses = @ + 1]
              /\ out' = [out EXCEPT !.parsed = TRUE]
              /\ allEntries' = ParseCodeownersContent(codeowners.content)
              /\ pc' = "loop"
              /\ exitStatus' = exitStatus
    /\ idx' = 1
    /\ UNCHANGED <<args, codeowners, gitignore, unreadable, matchingFiles, searchLog,
                   fnIn, fnOut>>

\* One iteration of the loop of lines 170-180.
SearchEntry ==
    /\ pc = "loop"
    /\ idx <= Len(allEntries)
    /\ LET entry == allEntries[idx]
       IN  IF OwnerMatches(entry.owners, TeamOf(args))
           THEN \E found \in {searchInFiles(NormalizedPath(entry.path), SearchTermOf(args))} :
                /\ searchLog' = Append(searchLog, [found EXCEPT !.basePath = entry.path])
                /\ io' = [io EXCEPT !.exists = @ + 1,
                                    !.stats = @ + found.stats,
                                    !.readdirs = @ + found.readdirs,
                                    !.gitignoreParses = @ + found.gitignoreReads,
                                    !.gitignoreReads =
                                        @ + found.gitignoreReads
                                          + Occurrences(found.reads, P_gitignore),
                                    !.codeownersReads =
                                        @ + Occurrences(found.reads, P_codeowners),
                                    !.fileReads = @ + Len(found.reads)]
                /\ IF found.threw
                   THEN /\ pc' = "exited"
                        /\ exitStatus' = 1
                        /\ out' = [out EXCEPT !.uncaught = TRUE]
                        /\ UNCHANGED <<matchingFiles, idx>>
                   ELSE /\ matchingFiles' = AddAll(matchingFiles, found.matchingFiles)
                        /\ idx' = idx + 1
                        /\ UNCHANGED <<pc, exitStatus, out>>
           ELSE /\ idx' = idx + 1
                /\ UNCHANGED <<searchLog, io, matchingFiles, pc, exitStatus, out>>
    /\ UNCHANGED <<args, codeowners, gitignore, unreadable, allEntries, fnIn, fnOut>>

\* Lines 182-185 and 202-210: the loop is over; the result is returned and reported,
\* and the script ends (exit status 0).
Report ==
    /\ pc = "loop"
    /\ idx > Len(allEntries)
    /\ LET results == matchingFiles
       IN  out' = [out EXCEPT !.found = TRUE,
                              !.report = Len(results) > 0,
                              !.reportCount = Len(results),
                              !.reportLines = results,
                              !.noFiles = ~(Len(results) > 0)]
    /\ exitStatus' = 0
    /\ pc' = "exited"
    /\ UNCHANGED <<args, codeowners, gitignore, unreadable, allEntries, idx,
                   matchingFiles, searchLog, io, fnIn, fnOut>>

(***************************************************************************)
(* The inputs of a run.                                                    *)
(***************************************************************************)

MaxLines == 2

MaxUnreadable == 1

T_TODO == <<"T", "O", "D", "O">>
T_do == <<"d", "o">>
T_DO == <<"D", "O">>
TeamA == <<"@", "t", "e", "a", "m", "-", "a">>
TeamAUpper == <<"@", "T", "E", "A", "M", "-", "A">>
TeamB == <<"@", "t", "e", "a", "m", "-", "b">>

ArgvPool ==
    { <<>>, <<T_TODO>>, <<T_TODO, TeamA>>, <<T_DO, TeamB>>,
      <<T_do, TeamAUpper, T_TODO>> }

\* Lines of a CODEOWNERS file.
LinePool ==
    { <<"s", "r", "c", "/", " ", "@", "t", "e", "a", "m", "-", "a">>,
      <<"/", "s", "r", "c", "/", "l", "i", "b", "/", "*", " ", "@", "t", "e", "a", "m", "-", "b", " ", "@", "T", "e", "a", "m", "-", "A">>,
      <<"s", "r", "c", "/", "a", ".", "t", "e", "s", "t", ".", "j", "s", " ", "@", "t", "e", "a", "m", "-", "a", " ", "#", "x">>,
      <<"s", "r", "c", "/", "a", "*", ".", "j", "s", "/", " ", "@", "t", "e", "a", "m", "-", "a">>,
      <<"*", " ", "@", "t", "e", "a", "m", "-", "b">>,
      <<"s", "r", "c", "/", ".", ".", "/", ".", ".", " ", "@", "t", "e", "a", "m", "-", "b">>,
      <<".", "g", "i", "t", "i", "g", "n", "o", "r", "e", " ", "@", "t", "e", "a", "m", "-", "b">> }

\* Contents of a .gitignore file.
GitignoreContents ==
    { <<>>,
      <<"*", ".", "t", "e", "s", "t", ".", "j", "s">>,
      <<"#", " ", "d", "e", "p", "s", "\n", "l", "i", "b", "\n">> }

SeqsUpTo(S, n) == UNION {[1..k -> S] : k \in 0..n}

CodeownersFiles ==
    {[status |-> "missing", content |-> <<>>], [status |-> "unreadable", content |-> <<>>]}
    \cup {[status |-> "ok", content |-> Join(ls, <<"\n">>)] : ls \in SeqsUpTo(LinePool, MaxLines)}

GitignoreFiles ==
    {[status |-> "missing", content |-> <<>>], [status |-> "unreadable", content |-> <<>>]}
    \cup {[status |-> "ok", content |-> c] : c \in GitignoreContents}

Init ==
    /\ pc = "start"
    /\ args \in ArgvPool
    /\ codeowners \in CodeownersFiles
    /\ gitignore \in GitignoreFiles
    /\ unreadable \in {u \in SUBSET TreeFiles : Cardinality(u) <= MaxUnreadable}
    /\ allEntries = <<>>
    /\ idx = 1
    /\ matchingFiles = <<>>
    /\ searchLog = <<>>
    /\ io = NoIo
    /\ out = NoOut
    /\ exitStatus = "running"
    /\ fnIn = <<>>
    /\ fnOut = <<>>

Next == Main \/ ParseCodeowners \/ SearchEntry \/ Report

Spec == Init /\ [][Next]_vars

(***************************************************************************)
(* The functions on their own: parseCodeowners' parse and isIgnored,       *)
(* applied to inputs drawn from bounded sets.                              *)
(***************************************************************************)

MaxContentLen == 5

MaxPatternLen == 2

MaxPathLen == 4

ParseAlphabet == {"@", "a", "#", " ", "\n"}

PathAlphabet == {"a", "b", ".", "/"}

\* The paths path.relative can return: already normal, and not empty.
RelativePaths ==
    {p \in SeqsUpTo(PathAlphabet, MaxPathLen) : p # <<>> /\ PathNormalize(p) = p}

\* The ignore patterns without a wildcard.
PlainPatterns == SeqsUpTo(PathAlphabet, MaxPatternLen) \ {<<>>}

InitIdle ==
    /\ pc = "fn"
    /\ args = <<>>
    /\ codeowners = [status |-> "missing", content |-> <<>>]
    /\ gitignore = [status |-> "missing", content |-> <<>>]
    /\ unreadable = {}
    /\ allEntries = <<>>
    /\ idx = 1
    /\ matchingFiles = <<>>
    /\ searchLog = <<>>
    /\ io = NoIo
    /\ out = NoOut
    /\ exitStatus = "running"

InitParse ==
    /\ InitIdle
    /\ fnIn \in SeqsUpTo(ParseAlphabet, MaxContentLen)
    /\ fnOut = <<>>

\* The parse of lines 19-41 applied to the content drawn.
ApplyParse ==
    /\ pc = "fn"
    /\ fnOut' = ParseCodeownersContent(fnIn)
    /\ pc' = "fnDone"
    /\ UNCHANGED <<args, codeowners, gitignore, unreadable, allEntries, idx,
                   matchingFiles, searchLog, io, out, exitStatus, fnIn>>

NextParse == ApplyParse

SpecParse == InitParse /\ [][NextParse]_vars

InitIgnore ==
    /\ InitIdle
    /\ fnIn \in [pattern : PlainPatterns, path : RelativePaths]
    /\ fnOut = FALSE

\* isIgnored(path, new Set([pattern]))
ApplyIgnore ==
    /\ pc = "fn"
    /\ fnOut' = isIgnored(fnIn.path, <<fnIn.pattern>>)
    /\ pc' = "fnDone"
    /\ UNCHANGED <<args, codeowners, gitignore, unreadable, allEntries, idx,
                   matchingFiles, searchLog, io, out, exitStatus, fnIn>>

NextIgnore == ApplyIgnore

SpecIgnore == InitIgnore /\ [][NextIgnore]_vars

(***************************************************************************)
(* Properties.                                                             *)
(***************************************************************************)

\* s contains t, compared character by character without regard to case.
HasTermIn(s, t) ==
    \E i \in 1..(Len(s) + 1) :
        /\ i + Len(t) - 1 <= Len(s)
        /\ \A k \in 1..Len(t) : LowerChar(s[i + k - 1]) = LowerChar(t[k])

\* The file can be read and its content contains the search term, whatever the case.
HasTerm(f) == ~ReadFails(f) /\ HasTermIn(FileContent(f), SearchTermOf(args))

\* The owner is the team asked for, whatever the case.
SameOwner(owner, team) ==
    /\ Len(owner) = Len(team)
    /\ \A k \in 1..Len(owner) : LowerChar(owner[k]) = LowerChar(team[k])

OwnedBy(entry, team) == \E k \in 1..Len(entry.owners) : SameOwner(entry.owners[k], team)

\* The entries of allEntries owned by the team asked for, in order.
OwnedEntries ==
    LET Owned(entry) == OwnedBy(entry, TeamOf(args)) IN SelectSeq(allEntries, Owned)

\* The place an entry's normalized path denotes.
RootOf(entry) == PathNormalize(NormalizedPath(entry.path))

\* What the normalized path of an entry is: a file, a directory, or neither (a path
\* that ends with a separator is no file).
RootKind(entry) ==
    LET kind == FsKind(RootOf(entry))
    IN  IF kind = "file" /\ EndsWithSlash(NormalizedPath(entry.path)) THEN "missing"
        ELSE kind

\* How many directories above the working directory r is (0: at or below it).
LevelsUp(r) ==
    IF \E k \in 1..Len(CwdSegments) : r = Ups(k)
    THEN CHOOSE k \in 1..Len(CwdSegments) : r = Ups(k)
    ELSE 0

\* Directory r, at or below the working directory, as the start of the paths under it.
Under(r) == IF r = P_cwd \/ LevelsUp(r) > 0 THEN <<>> ELSE r \o <<"/">>

\* The paths from below root r down to f: the directories between r and the working
\* directory when r is above it, the directories between r and f, and f itself.
PathsBelow(f, r) ==
    {Ups(j) : j \in 0..(LevelsUp(r) - 1)}
    \cup {SubSeq(f, 1, k) :
            k \in {j \in (Len(Under(r)) + 1)..Len(f) : j = Len(f) \/ f[j + 1] = "/"}}

\* The files under directory r that no ignore pattern prunes, the file itself or a
\* directory on the way to it.
IsReachedUnder(f, r, patterns) ==
    /\ f \in FsFiles
    /\ Len(f) > Len(Under(r))
    /\ SubSeq(f, 1, Len(Under(r))) = Under(r)
    /\ \A p \in PathsBelow(f, r) : ~isIgnored(p, patterns)

ReachedUnder(r, patterns) == {f \in FsFiles : IsReachedUnder(f, r, patterns)}

\* What an owned entry contributes: the file it names, or the files reached under the
\* directory it names (none when the ignore set cannot be loaded).
ExpectedOf(entry) ==
    LET r == RootOf(entry)
    IN  CASE RootKind(entry) = "file" -> {f \in {r} : HasTerm(f)}
          [] RootKind(entry) = "dir" ->
               IF gitignore.status = "ok"
               THEN {f \in ReachedUnder(r, ParseGitignoreContent(gitignore.content)) :
                        HasTerm(f)}
               ELSE {}
          [] OTHER -> {}

ExpectedFiles ==
    UNION {ExpectedOf(allEntries[k]) :
              k \in {j \in 1..Len(allEntries) : OwnedBy(allEntries[j], TeamOf(args))}}

\* The scenario of the specification: "src/ @team-a", "*.test.js", TODO, @team-a.
Scenario ==
    /\ codeowners = [status |-> "ok", content |-> <<"s", "r", "c", "/", " ", "@", "t", "e", "a", "m", "-", "a">>]
    /\ gitignore = [status |-> "ok", content |-> <<"*", ".", "t", "e", "s", "t", ".", "j", "s">>]
    /\ args = <<T_TODO, TeamA>>
    /\ unreadable = {}

\* C1: when findCodeownersPaths returns, the paths it returns are exactly the files
\* that an entry owned by the requested owner names or that the walker reaches under
\* it unpruned, and whose content contains the term whatever the case; in the
\* scenario the result is exactly src/a.js.
C1_ResultIsExpected ==
    out.found =>
        /\ Range(matchingFiles) = ExpectedFiles
        /\ out.reportLines = matchingFiles
        /\ Scenario => out.reportLines = <<P_a>>

C1_Witness == pc = "exited" /\ Scenario /\ out.report /\ out.reportLines = <<P_a>>

\* A search whose ignore-file read failed.
IgnoreReadFailed(k) == searchLog[k].kind = "dir" /\ gitignore.status # "ok"

\* C2 as stated: once a directory search's read of the ignore file fails, the run is
\* over: no further entry is searched and no final report is printed.
C2_IgnoreFailureIsFatal ==
    \A k \in 1..Len(searchLog) :
        IgnoreReadFailed(k) =>
            /\ Len(searchLog) = k
            /\ ~out.found /\ ~out.report /\ ~out.noFiles
            /\ pc = "exited" => exitStatus # 0

\* C2 amended: a failed read of the ignore file is caught inside searchInFiles; that
\* owned directory contributes no match, every owned entry is still searched, and
\* the run ends with the final report and exit status 0.
C2_IgnoreFailureContained ==
    \A k \in 1..Len(searchLog) :
        IgnoreReadFailed(k) =>
            /\ searchLog[k].error /\ ~searchLog[k].threw
            /\ searchLog[k].matchingFiles = <<>>
            /\ ~out.uncaught
            /\ pc = "exited" =>
                   /\ exitStatus = 0
                   /\ out.found /\ (out.report \/ out.noFiles)
                   /\ Len(searchLog) = Len(OwnedEntries)

C2_Witness ==
    /\ pc = "exited" /\ out.report
    /\ \E k \in 1..Len(searchLog) : IgnoreReadFailed(k) /\ k < Len(searchLog)

\* C3 as stated: a run given two or more arguments ends with exit status 0 and a
\* report (files found, or none), whatever fails.
C3_ExitZeroWithArguments ==
    (pc = "exited" /\ Len(args) >= 2) =>
        /\ exitStatus = 0
        /\ out.report \/ out.noFiles

\* C4: a run given fewer than two arguments prints the usage text and exits with
\* status 1, and makes no file-system call at all.
C4_UsageWithoutFileIo ==
    Len(args) < 2 =>
        /\ io = NoIo
        /\ pc \in {"start", "exited"}
        /\ pc = "exited" => (out.usage /\ exitStatus = 1 /\ ~out.banner)

C4_Witness == pc = "exited" /\ Len(args) = 1 /\ out.usage /\ exitStatus = 1

\* The entry the specification gives a line: the first token is the path, the tokens
\* after it that start with '@' are the owners.
EntriesOfLine(line) ==
    LET t == Trim(line)
        tokens == SplitWs(t)
    IN  IF t = <<>> \/ StartsWith(t, "#") \/ Len(tokens) < 2 THEN <<>>
        ELSE <<[path |-> tokens[1], owners |-> SelectSeq(Tail(tokens), IsOwnerToken)]>>

RECURSIVE EntriesOfLines(_)
EntriesOfLines(lines) ==
    IF Len(lines) = 0 THEN <<>>
    ELSE EntriesOfLine(lines[1]) \o EntriesOfLines(Tail(lines))

\* C5 as stated: each line with two tokens or more yields one entry whose owners are
\* the tokens after the first that start with '@'; the other lines yield none.
C5_OwnersAreLaterTokens ==
    pc = "fnDone" => fnOut = EntriesOfLines(SplitOn(fnIn, "\n"))

\* t ends s.
EndsWith(s, t) == Len(t) <= Len(s) /\ SubSeq(s, Len(s) - Len(t) + 1, Len(s)) = t

\* C6 as stated: a pattern without wildcard ignores the path equal to it and no other.
C6_ExactMatchOnly ==
    pc = "fnDone" => (fnOut <=> fnIn.path = fnIn.pattern)

\* C6 amended: a pattern without wildcard (of letters, digits, '-', '_', '/', '.')
\* ignores exactly the paths equal to it, those that contain it followed by '/', and
\* those that end with '/' followed by it.
C6_ExactSegmentOrSuffix ==
    pc = "fnDone" =>
        (fnOut <=> \/ fnIn.path = fnIn.pattern
                   \/ Includes(fnIn.path, fnIn.pattern \o <<"/">>)
                   \/ EndsWith(fnIn.path, <<"/">> \o fnIn.pattern))

C6_Witness ==
    /\ pc = "fnDone" /\ fnOut /\ fnIn.path # fnIn.pattern
    /\ \E i \in 1..Len(fnIn.pattern) : fnIn.pattern[i] = "."

\* The files some search of the run matched.
MatchedAnywhere == UNION {Range(searchLog[k].matchingFiles) : k \in 1..Len(searchLog)}

\* C7: a file matched through several owned entries is in the result once; the
\* report lists each distinct matched path once and its count is their number.
C7_Deduplicated ==
    /\ Cardinality(Range(matchingFiles)) = Len(matchingFiles)
    /\ out.found =>
           /\ out.reportLines = matchingFiles
           /\ Range(out.reportLines) = MatchedAnywhere
           /\ out.reportCount = Cardinality(MatchedAnywhere)

C7_Witness ==
    /\ pc = "exited" /\ out.report
    /\ \E k1, k2 \in 1..Len(searchLog) :
           /\ k1 < k2
           /\ searchLog[k1].fullPath # searchLog[k2].fullPath
           /\ Range(searchLog[k1].matchingFiles) \cap Range(searchLog[k2].matchingFiles) # {}

\* The searches of the run that found a directory at the owned path.
DirectorySearches == {k \in 1..Len(searchLog) : searchLog[k].kind = "dir"}

\* The parsed ownership list and the ignore set are as they were built: the list is
\* the parse of the ownership file, and every test of a path against the ignore set
\* was given the parse of the ignore file.
BuiltOnceAndKept ==
    /\ out.parsed => allEntries = ParseCodeownersContent(codeowners.content)
    /\ \A k \in 1..Len(searchLog) :
           /\ Range(searchLog[k].ignoreSets)
                  \subseteq {ParseGitignoreContent(gitignore.content)}
           /\ (searchLog[k].tested # <<>>) = (searchLog[k].ignoreSets # <<>>)

\* C8 as stated: in a run the ownership file is read at most once and the ignore
\* file at most once, and the parsed list and ignore set stay as built.
C8_EachFileReadOnce ==
    /\ io.codeownersReads <= 1
    /\ io.gitignoreReads <= 1
    /\ BuiltOnceAndKept

\* The searches of the run whose content scan reads file f: the searches of an owned
\* entry that names f, and the searches of an owned directory under which f is
\* reached unpruned.
Scans(s, f) ==
    \/ s.kind = "file" /\ s.fullPath = f
    \/ /\ s.kind = "dir"
       /\ gitignore.status = "ok"
       /\ IsReachedUnder(f, s.fullPath, ParseGitignoreContent(gitignore.content))

ScansOf(f) == {k \in 1..Len(searchLog) : Scans(searchLog[k], f)}

\* Whether parseCodeowners has read the ownership file (line 18).
OwnershipListBuilt ==
    pc \in {"loop", "exited"} /\ ~TooFewArgs(args) /\ codeowners.status # "missing"

\* C8 amended: the ownership file is read to build the ownership list at most once
\* in a run; the ignore file is read to build an ignore set once for each owned entry
\* that is a directory (once per walk, however deep, and never for an owned file);
\* the only other reads of the two files are the content scan's, one in each search
\* whose scanned files include the file; the parsed ownership list and each ignore
\* set stay as they were built.
C8_IgnoreReadOncePerWalk ==
    /\ io.codeownersParses = (IF OwnershipListBuilt THEN 1 ELSE 0)
    /\ io.gitignoreParses = Cardinality(DirectorySearches)
    /\ \A k \in 1..Len(searchLog) :
           /\ searchLog[k].gitignoreReads = IF k \in DirectorySearches THEN 1 ELSE 0
           /\ Occurrences(searchLog[k].reads, P_codeowners)
                  = (IF Scans(searchLog[k], P_codeowners) THEN 1 ELSE 0)
           /\ Occurrences(searchLog[k].reads, P_gitignore)
                  = (IF Scans(searchLog[k], P_gitignore) THEN 1 ELSE 0)
    /\ io.codeownersReads = io.codeownersParses + Cardinality(ScansOf(P_codeowners))
    /\ io.gitignoreReads = io.gitignoreParses + Cardinality(ScansOf(P_gitignore))
    /\ BuiltOnceAndKept

\* Two owned directories, one of them deep and holding both files: the ownership
\* file is read twice and the ignore file three times.
C8_Witness ==
    /\ pc = "exited"
    /\ Cardinality(DirectorySearches) = 2
    /\ io.codeownersReads = 2
    /\ io.gitignoreReads = 3
    /\ \E k \in DirectorySearches :
           /\ searchLog[k].readdirs >= 2
           /\ P_codeowners \in Range(searchLog[k].reads)
           /\ P_gitignore \in Range(searchLog[k].reads)
           /\ searchLog[k].ignoreSets # <<>>

\* C9: in the scan of an owned directory every candidate file is read, in listing
\* order; each one whose read fails gets a warning and is skipped; the others are
\* tested and the matches are kept in the result, with those of the other entries.
C9_UnreadableFileSkipped ==
    \A k \in 1..Len(searchLog) :
        LET s == searchLog[k]
            Failing(f) == ReadFails(f)
            Matching(f) == HasTerm(f)
        IN  (s.kind = "dir" /\ ~s.error) =>
                /\ s.reads = s.candidates
                /\ s.warnings = SelectSeq(s.candidates, Failing)
                /\ s.matchingFiles = SelectSeq(s.candidates, Matching)
                /\ (k < idx \/ pc = "exited") => Range(s.matchingFiles) \subseteq Range(matchingFiles)

C9_Witness ==
    /\ pc = "exited" /\ out.report
    /\ \E k \in 1..Len(searchLog) :
           LET s == searchLog[k]
           IN  \E i, j, l \in 1..Len(s.candidates) :
                   /\ i < j /\ j < l
                   /\ s.candidates[j] \in unreadable
                   /\ s.candidates[i] \in Range(out.reportLines)
                   /\ s.candidates[l] \in Range(out.reportLines)
                   /\ k > 1 /\ searchLog[1].matchingFiles # <<>>

\* C10: an owned path that is a file is tested and reported without the ignore file
\* being read or isIgnored being called; an owned directory is not itself handed to
\* isIgnored; the files the walker finds are those isIgnored does not flag.
C10_IgnoreOnlyBelowOwnedDirectory ==
    \A k \in 1..Len(searchLog) :
        LET s == searchLog[k]
        IN  /\ s.kind = "file" =>
                   /\ s.gitignoreReads = 0
                   /\ s.tested = <<>>
                   /\ s.matchingFiles = (IF HasTerm(s.fullPath) THEN <<s.fullPath>> ELSE <<>>)
            /\ s.kind = "dir" =>
                   /\ s.fullPath \notin Range(s.tested)
                   /\ Range(s.candidates) \subseteq Range(s.tested)
                   /\ \A f \in Range(s.candidates) :
                          ~isIgnored(f, ParseGitignoreContent(gitignore.content))

C10_Witness ==
    /\ pc = "exited" /\ gitignore.status = "ok"
    /\ \E f \in Range(out.reportLines) :
           isIgnored(f, ParseGitignoreContent(gitignore.content))
    /\ \E k \in DirectorySearches : searchLog[k].candidates # <<>>

====
